---- MODULE Spec2Model ----
(***************************************************************************)
(* NimbusOS: the cooperative kernel of src/nimbusOS.ino.                   *)
(*                                                                         *)
(* The file holds two sketches of the kernel: the first class NimbusOS     *)
(* (lines 61-188, object `nimbus`) and the second (lines 905-1133, object  *)
(* `os`).  The variable `variant` says which of the two is running; the    *)
(* state keeps the names of the second one (t, n, cur, ctxSw, ...), the    *)
(* first one's fields map onto them (tasks, taskCount, currentTask,        *)
(* contextSwitches, lastRun -> last, wakeTime -> sleepUntil).              *)
(***************************************************************************)
EXTENDS Integers, Naturals, Sequences, FiniteSets, TLC

(* ---------------- program constants ---------------- *)
MAX_TASKS == 6
T_READY == 1
T_RUN == 2
T_WAIT == 3
T_SUSPENDED == 4
PRIORITY_IDLE == 0
PRIORITY_LOW == 1
PRIORITY_NORMAL == 2
PRIORITY_HIGH == 3
MSG_DATA_LEN == 8
TASK_MAX_RUNTIME_MS == 2000
\* WDTO_2S, the timeout given to wdt_enable, in ms
WDT_TIMEOUT_MS == 2000
PIN_SD_CS == 4
PIN_ETH_CS == 10

\* widths of the integer types of the fields: uint16_t and uint8_t
W16 == 65536
W8 == 256

\* A uint32_t is kept as its two 16-bit halves, value = hi * 2^16 + lo, so that
\* 32-bit arithmetic is done at its real width.  Physical time is kept the same
\* way with an unbounded hi, so that it runs on past 2^32 ms.
U32(h, l) == [hi |-> h, lo |-> l]
U32Zero == U32(0, 0)
\* conversion of a physical time or of an integer expression to uint32_t
Wrap32(a) == U32(a.hi % W16, a.lo)
\* a + k for 0 <= k < 2^16, without wrapping
TimePlus(a, k) == U32(a.hi + ((a.lo + k) \div W16), (a.lo + k) % W16)
\* a >= b
TimeGeq(a, b) == a.hi > b.hi \/ (a.hi = b.hi /\ a.lo >= b.lo)
\* a + k in uint32_t arithmetic
U32Plus(a, k) == Wrap32(TimePlus(a, k))
\* a - b in uint32_t arithmetic
U32Minus(a, b) ==
    U32((a.hi - b.hi - (IF a.lo < b.lo THEN 1 ELSE 0)) % W16, (a.lo - b.lo) % W16)
\* integer promotion of a uint16_t to uint32_t
Promote16(k) == U32(0, k)

SCHEDULER_FREQ_HZ == 100

(* ---------------- bounds of the model ---------------- *)
\* run() is started with at most this many registered tasks
MaxRunTasks == 2
\* milliseconds of physical time followed after the start time
MaxElapsed == 1
\* the context-switch counter is followed up to this value
MaxCtxSw == 1
\* ms of physical time followed after the start time where entry points run
\* for seconds
MaxRunMs == 2002
\* calls of the SPI manager followed after reset
MaxSpiCalls == 4
\* the end-to-end trace: ms followed after boot, and dispatches followed
MaxTraceMs == 200
MaxTraceCtxSw == 4
\* the tick counter is followed up to this value
MaxTicks == 257
\* starvation: ms followed after the start time, and dispatches followed
MaxStarveMs == 2
MaxStarveCtxSw == 3

\* millis() at the moment setup() begins: just after reset, and just before
\* the 32-bit millisecond counter wraps (49.7 days of uptime)
StartTimes == {U32(0, 0), U32(W16 - 1, W16 - 1)}

\* inputs of the operations
\* (period, priority) of a registration
Profiles == {<<0, PRIORITY_HIGH>>, <<1, PRIORITY_HIGH>>, <<0, PRIORITY_IDLE>>}
SleepMs == {1}
\* ms an entry point runs in one stretch
RunMs == {1000, 2000, 2001}
\* the end-to-end trace: the priorities registered, in order, the length of
\* the sleep of the first task, and the ms an entry point runs in one stretch
TracePri == <<PRIORITY_HIGH, PRIORITY_NORMAL, PRIORITY_LOW>>
TraceSleepMs == 100
TraceRunMs == {50, 99}
TaskIds == 0 .. MaxRunTasks
\* (type, payload) of a send: two payloads that differ in type, bytes and
\* length, one of them empty, and one of nine bytes
Messages == {<<1, <<>>>>, <<2, <<5, 6>>>>, <<2, <<1, 2, 3, 4, 5, 6, 7, 8, 9>>>>}
\* maxSize of a receive
MaxSizes == {0, 1, 8}

VARIABLES
    variant,        \* 1: class NimbusOS at line 61, 2: class NimbusOS at line 905
    t,              \* Task t[MAX_TASKS]           (tasks[])
    n,              \* uint8_t n                   (taskCount)
    cur,            \* uint8_t cur                 (currentTask)
    ctxSw,          \* context-switch counter
    suspendFlags,   \* uint8_t bitmask, bit i = task i suspended
    lowPowerMode,   \* bool
    clock,          \* physical time in ms; millis() is clock mod 2^32
    bootAt,         \* physical time at which the model starts following the run
    pc,             \* position of the main thread: setup, loop, wdt, scan,
                    \* select, task, idle
    now,            \* run(): uint32_t now
    best,           \* run(): int8_t best          (bestTask)
    wdtEnabled,     \* watchdog armed (wdt_enable)
    wdtKick,        \* physical time of the last wdt_reset / wdt_enable
    ret,            \* value returned by the kernel call made in the last step
                    \* (NoRet when the last step was no such call)
    wakeAt,         \* history: physical time t0 + d of each task's last sleep(d)
    held,           \* history: the tasks suspended while WAITING since they slept
    spi,            \* SPIMgr: dev (currentDevice), the levels of the pins it
                    \* writes, and history: its last calls
    ranAt,          \* history: physical time of each task's last dispatch
    ticks,          \* volatile uint32_t ticks, incremented by the Timer1 ISR
    call            \* the kernel call or routine the main thread is inside of,
                    \* with its position and temporaries (NoCall when in none)

vars == <<variant, t, n, cur, ctxSw, suspendFlags, lowPowerMode, clock, bootAt,
          pc, now, best, wdtEnabled, wdtKick, ret, wakeAt, held, spi, ranAt,
          ticks, call>>

Slots == 0 .. (MAX_TASKS - 1)

(* ---------------- helpers ---------------- *)
millis == Wrap32(clock)

\* a - b in milliseconds, for two physical times
Diff(a, b) == (a.hi - b.hi) * W16 + (a.lo - b.lo)

\* physical milliseconds since the start time
Elapsed == (clock.hi - bootAt.hi) * W16 + (clock.lo - bootAt.lo)

\* a task that has not been dispatched has no time of last dispatch
NoTime == [hi |-> -1, lo |-> 0]

NoCall == [op |-> "none"]

ZeroData == [k \in 1 .. MSG_DATA_LEN |-> 0]

\* memset(t, 0, sizeof(t)): every field of every slot is zero
ZeroTask ==
    [period |-> 0, last |-> 0, state |-> 0, pri |-> 0, sleepUntil |-> U32Zero,
     startRun |-> U32Zero,
     message |-> [type |-> 0, data |-> ZeroData, size |-> 0, pending |-> FALSE]]

NoRet == [op |-> "none"]

\* the chip-select pins of the devices that share the SPI bus
SpiDevices == {PIN_SD_CS, PIN_ETH_CS}
\* the pins SPIMgr writes: dev starts at 0, so pin 0 is written as well
SpiPins == SpiDevices \cup {0}
\* uint8_t SPIMgr::dev = 0, and the pins as setup() leaves them (deselect())
SpiReset == [dev |-> 0, pin |-> [p \in SpiPins |-> "HIGH"], log |-> <<>>]

\* suspendFlags & (1 << i)
BitSet(flags, i) == (flags \div (2 ^ i)) % 2 = 1
\* flags |= (1 << i), stored in a uint8_t
OrBit(flags, i) == (IF BitSet(flags, i) THEN flags ELSE flags + 2 ^ i) % W8
\* flags &= ~(1 << i)
ClearBit(flags, i) == IF BitSet(flags, i) THEN flags - 2 ^ i ELSE flags

\* min(a, b) of Arduino.h
min(a, b) == IF a < b THEN a ELSE b

(* ---------------- construction ---------------- *)
Init ==
    /\ variant \in {1, 2}
    /\ t = [i \in Slots |-> ZeroTask]
    /\ n = 0
    /\ cur = 0
    /\ ctxSw = 0
    /\ suspendFlags = 0
    /\ lowPowerMode = FALSE
    /\ clock \in StartTimes
    /\ bootAt = clock
    /\ pc = "setup"
    /\ now = U32Zero
    /\ best = -1
    /\ wdtEnabled = FALSE
    /\ wdtKick = U32Zero
    /\ ret = NoRet
    /\ wakeAt = [i \in Slots |-> U32Zero]
    /\ held = {}
    /\ spi = SpiReset
    /\ ranAt = [i \in Slots |-> NoTime]
    /\ ticks = 0
    /\ call = NoCall

(* ---------------- task registry ---------------- *)
\* seeded fault: the table counts as full one slot early
addFullOneShort == n >= MAX_TASKS - 1

\* the guard of add / addTask
addFull == n >= MAX_TASKS

\* int add(f, p, pr, name) of the second sketch, int addTask(...) of the first.
\* pri is a 2-bit field in the second sketch, a uint8_t in the first.
add(p, pr) ==
    IF addFull
    THEN /\ ret' = [op |-> "add", rc |-> -1]
         /\ UNCHANGED <<t, n>>
    ELSE /\ t' = [t EXCEPT ![n] =
                    [@ EXCEPT !.period = p,
                              !.pri = IF variant = 2 THEN pr % 4 ELSE pr % W8,
                              !.state = T_READY,
                              !.last = 0,
                              !.sleepUntil = U32Zero,
                              !.startRun = U32Zero,
                              !.message = IF variant = 2
                                          THEN [@ EXCEPT !.pending = FALSE]
                                          ELSE @]]
         /\ n' = n + 1
         /\ ret' = [op |-> "add", rc |-> n]

\* setup(): registrations made before run() is called
Register ==
    /\ pc = "setup"
    /\ n < MaxRunTasks
    /\ \E pf \in Profiles : add(pf[1], pf[2])
    /\ UNCHANGED <<variant, cur, ctxSw, suspendFlags, lowPowerMode, clock, bootAt,
                   pc, now, best, wdtEnabled, wdtKick, wakeAt, held, spi, ranAt,
                   ticks, call>>

(* ---------------- watchdog ---------------- *)
\* seeded fault: a watchdog that never expires
FiresNever(d) == FALSE

\* wdt_enable(WDTO_2S) arms the watchdog in reset mode: when d more ms pass
\* without a wdt_reset, more than the timeout has passed since the last one
\* and the watchdog resets the processor
Fires(d) == wdtEnabled /\ Diff(TimePlus(clock, d), wdtKick) > WDT_TIMEOUT_MS

\* where the main thread is after d ms spent on the way to `next`
AfterTime(d, next) == IF Fires(d) THEN "reset" ELSE next

\* the processor restarts after a watchdog reset: the C++ runtime zeroes the
\* statics and runs the constructors again, millis() restarts at 0
Reboot ==
    /\ pc = "reset"
    /\ t' = [i \in Slots |-> ZeroTask]
    /\ n' = 0
    /\ cur' = 0
    /\ ctxSw' = 0
    /\ suspendFlags' = 0
    /\ lowPowerMode' = FALSE
    /\ clock' = U32Zero
    /\ bootAt' = U32Zero
    /\ pc' = "setup"
    /\ now' = U32Zero
    /\ best' = -1
    /\ wdtEnabled' = FALSE
    /\ wdtKick' = U32Zero
    /\ ret' = NoRet
    /\ wakeAt' = [i \in Slots |-> U32Zero]
    /\ held' = {}
    /\ spi' = SpiReset
    /\ ranAt' = [i \in Slots |-> NoTime]
    /\ ticks' = 0
    /\ call' = NoCall
    /\ UNCHANGED variant

(* ---------------- scheduler: run() ---------------- *)
\* run() up to the loop: Timer1 is programmed, the watchdog is armed
\* (wdt_enable(WDTO_2S)), then while (1) is entered
Start ==
    /\ pc = "setup"
    /\ wdtEnabled' = TRUE
    /\ wdtKick' = clock
    /\ pc' = "loop"
    /\ ret' = NoRet
    /\ UNCHANGED <<variant, t, n, cur, ctxSw, suspendFlags, lowPowerMode, clock,
                   bootAt, now, best, wakeAt, held, spi, ranAt,
                   ticks, call>>

\* top of the loop body: uint32_t now = millis(); best = -1; maxPri = 0
LoopTop ==
    /\ pc = "loop"
    /\ now' = millis
    /\ best' = -1
    /\ pc' = "wdt"
    /\ ret' = NoRet
    /\ UNCHANGED <<variant, t, n, cur, ctxSw, suspendFlags, lowPowerMode, clock,
                   bootAt, wdtEnabled, wdtKick, wakeAt, held, spi, ranAt,
                   ticks, call>>

\* seeded fault: the loop body without its wdt_reset()
WdtResetMissing ==
    /\ pc = "wdt"
    /\ pc' = "scan"
    /\ ret' = NoRet
    /\ UNCHANGED <<variant, t, n, cur, ctxSw, suspendFlags, lowPowerMode, clock,
                   bootAt, now, best, wdtEnabled, wdtKick, wakeAt, held, spi, ranAt,
                   ticks, call>>

\* wdt_reset(), the statement that follows the declarations
WdtReset ==
    /\ pc = "wdt"
    /\ wdtKick' = clock
    /\ pc' = "scan"
    /\ ret' = NoRet
    /\ UNCHANGED <<variant, t, n, cur, ctxSw, suspendFlags, lowPowerMode, clock,
                   bootAt, now, best, wdtEnabled, wakeAt, held, spi, ranAt,
                   ticks, call>>

\* seeded fault: the scan without its test of suspendFlags
SkippedNever(i) == FALSE

\* if (suspendFlags & (1 << i)) continue;
Skipped(i) == BitSet(suspendFlags, i)

\* seeded fault: the sleep-timeout check without its test of the time
WakeDueEarly(task, tm) == task.state = T_WAIT

\* t[i].state == T_WAIT && now >= t[i].sleepUntil
WakeDue(task, tm) == task.state = T_WAIT /\ TimeGeq(tm, task.sleepUntil)

\* the task as the sleep-timeout check of the scan leaves it
Woken(task, tm) ==
    IF WakeDue(task, tm)
    THEN [task EXCEPT !.state = T_READY, !.sleepUntil = U32Zero]
    ELSE task

\* t[i].state == T_READY && (now - t[i].last) >= t[i].period
\* (uint32_t minus a promoted uint16_t, in 32-bit unsigned arithmetic)
Runnable(task, tm) ==
    /\ task.state = T_READY
    /\ TimeGeq(U32Minus(tm, Promote16(task.last)), Promote16(task.period))

\* seeded fault: the selection without its priority comparison
BeatsAny(pri, maxPri) == TRUE

\* seeded fault: the selection prefers the lower priority
BeatsLowest(pri, maxPri) == pri <= maxPri

\* the priority comparison of the selection:
\*   first sketch:  tasks[i].priority > highestPriority
\*   second sketch: t[i].pri >= maxPri
Beats(pri, maxPri) ==
    IF variant = 1 THEN pri > maxPri ELSE pri >= maxPri

\* the for loop of run(), from index i on, with the locals best and maxPri
RECURSIVE ScanFrom(_, _, _, _)
ScanFrom(i, tt, b, mp) ==
    IF i >= n
    THEN [t |-> tt, best |-> b]
    ELSE IF Skipped(i)
         THEN ScanFrom(i + 1, tt, b, mp)
         ELSE LET w == Woken(tt[i], now)
                  tt2 == [tt EXCEPT ![i] = w]
              IN IF Runnable(w, now) /\ Beats(w.pri, mp)
                 THEN ScanFrom(i + 1, tt2, i, w.pri)
                 ELSE ScanFrom(i + 1, tt2, b, mp)

\* the priority comparison of sketch v
BeatsIn(v, pri, maxPri) ==
    IF v = 1 THEN pri > maxPri ELSE pri >= maxPri

\* the value the for loop of sketch v leaves in best (bestTask), run from index
\* i on over the task table, the suspend flags and the sampled time of the
\* current state
RECURSIVE BestFrom(_, _, _, _)
BestFrom(v, i, b, mp) ==
    IF i >= n
    THEN b
    ELSE IF Skipped(i)
         THEN BestFrom(v, i + 1, b, mp)
         ELSE LET w == Woken(t[i], now)
              IN IF Runnable(w, now) /\ BeatsIn(v, w.pri, mp)
                 THEN BestFrom(v, i + 1, i, w.pri)
                 ELSE BestFrom(v, i + 1, b, mp)

\* the whole for loop: wake-ups and selection
Scan ==
    /\ pc = "scan"
    /\ LET r == ScanFrom(0, t, -1, 0)
       IN /\ t' = r.t
          /\ best' = r.best
    /\ pc' = "select"
    /\ ret' = NoRet
    /\ UNCHANGED <<variant, n, cur, ctxSw, suspendFlags, lowPowerMode, clock,
                   bootAt, now, wdtEnabled, wdtKick, wakeAt, held, spi, ranAt,
                   ticks, call>>

\* seeded fault: a dispatch made while an entry point is still executing
DispatchNested ==
    /\ pc \in {"select", "task"}
    /\ best >= 0
    /\ cur' = best
    /\ t' = [t EXCEPT ![best] =
                [@ EXCEPT !.state = T_RUN,
                          !.last = now.lo,
                          !.startRun = IF variant = 2 THEN now ELSE @]]
    /\ wakeAt' = [wakeAt EXCEPT ![best] = U32Zero]
    /\ held' = held \ {best}
    /\ ranAt' = [ranAt EXCEPT ![best] = clock]
    /\ pc' = "task"
    /\ ret' = NoRet
    /\ UNCHANGED <<variant, n, ctxSw, suspendFlags, lowPowerMode, clock, bootAt,
                   now, best, wdtEnabled, wdtKick, spi, ticks, call>>

\* if (best >= 0) { cur = best; state = T_RUN; last = now; startRun = now; fn();
Dispatch ==
    /\ pc = "select"
    /\ best >= 0
    /\ cur' = best
    /\ t' = [t EXCEPT ![best] =
                [@ EXCEPT !.state = T_RUN,
                          !.last = now.lo,
                          !.startRun = IF variant = 2 THEN now ELSE @]]
    /\ wakeAt' = [wakeAt EXCEPT ![best] = U32Zero]
    /\ held' = held \ {best}
    /\ ranAt' = [ranAt EXCEPT ![best] = clock]
    /\ pc' = "task"
    /\ ret' = NoRet
    /\ UNCHANGED <<variant, n, ctxSw, suspendFlags, lowPowerMode, clock, bootAt,
                   now, best, wdtEnabled, wdtKick, spi, ticks, call>>

\* best < 0: the if (best >= 0) block is skipped
NoDispatch ==
    /\ pc = "select"
    /\ best < 0
    /\ pc' = "idle"
    /\ ret' = NoRet
    /\ UNCHANGED <<variant, t, n, cur, ctxSw, suspendFlags, lowPowerMode, clock,
                   bootAt, now, best, wdtEnabled, wdtKick, wakeAt, held, spi, ranAt,
                   ticks, call>>

\* seeded fault: the task is made READY whatever state its entry point left
stateReady(s) == T_READY

\* seeded fault: the state of the task is left as the entry point left it
stateKept(s) == s

\* if (t[cur].state == T_RUN) t[cur].state = T_READY
stateAfterRun(s) == IF s = T_RUN THEN T_READY ELSE s

\* fn() returns: if (state == T_RUN) state = T_READY; ctxSw++
\* (ctxSw is followed up to the value k)
Returns(k) ==
    /\ pc = "task"
    /\ t' = [t EXCEPT ![cur].state = stateAfterRun(@)]
    /\ ctxSw < k
    /\ ctxSw' = ctxSw + 1
    /\ ret' = NoRet
    /\ pc' = "idle"
    /\ UNCHANGED <<variant, n, cur, suspendFlags, lowPowerMode, clock, bootAt,
                   now, best, wdtEnabled, wdtKick, wakeAt, held, spi, ranAt,
                   ticks, call>>

Return == Returns(MaxCtxSw)

\* the condition of the low-power wait: best < 0 && lowPowerMode (second sketch)
IdleWait == variant = 2 /\ best < 0 /\ lowPowerMode

\* the condition under which delay(1) runs:
\*   first sketch:  the else of if (bestTask >= 0)
\*   second sketch: the else of if (best < 0 && lowPowerMode)
IdleDelayDue == IF variant = 1 THEN best < 0 ELSE ~IdleWait

\* sleep_mode() in SLEEP_MODE_IDLE: the CPU halts until the next interrupt
\* (Timer0 every ms, Timer1 every 10 ms)
IdleSleep ==
    /\ pc = "idle"
    /\ IdleWait
    /\ \E d \in {0, 1} :
          /\ Elapsed + d <= MaxElapsed
          /\ clock' = TimePlus(clock, d)
          /\ pc' = AfterTime(d, "loop")
    /\ ret' = NoRet
    /\ UNCHANGED <<variant, t, n, cur, ctxSw, suspendFlags, lowPowerMode, bootAt,
                   now, best, wdtEnabled, wdtKick, wakeAt, held, spi, ranAt,
                   ticks, call>>

\* delay(1), time being followed up to `limit` ms after the start time
IdleDelayWithin(limit) ==
    /\ pc = "idle"
    /\ IdleDelayDue
    /\ Elapsed + 1 <= limit
    /\ clock' = TimePlus(clock, 1)
    /\ pc' = AfterTime(1, "loop")
    /\ ret' = NoRet
    /\ UNCHANGED <<variant, t, n, cur, ctxSw, suspendFlags, lowPowerMode, bootAt,
                   now, best, wdtEnabled, wdtKick, wakeAt, held, spi, ranAt,
                   ticks, call>>

IdleDelay == IdleDelayWithin(MaxElapsed)

\* first sketch after a dispatch: the loop body ends without a delay
NoIdle ==
    /\ pc = "idle"
    /\ ~IdleWait
    /\ ~IdleDelayDue
    /\ pc' = "loop"
    /\ ret' = NoRet
    /\ UNCHANGED <<variant, t, n, cur, ctxSw, suspendFlags, lowPowerMode, clock,
                   bootAt, now, best, wdtEnabled, wdtKick, wakeAt, held, spi, ranAt,
                   ticks, call>>

(* ---------------- the running entry point ---------------- *)
\* the entry point of the current task executes for d ms, d one of ds, without
\* a kernel call; time is followed up to `limit` ms after the start time
TaskRunsFor(ds, limit) ==
    /\ pc = "task"
    /\ \E d \in ds :
          /\ Elapsed + d <= limit
          /\ clock' = TimePlus(clock, d)
          /\ pc' = AfterTime(d, "task")
    /\ ret' = NoRet
    /\ UNCHANGED <<variant, t, n, cur, ctxSw, suspendFlags, lowPowerMode, bootAt,
                   now, best, wdtEnabled, wdtKick, wakeAt, held, spi, ranAt,
                   ticks, call>>

\* one ms passes while the entry point of the current task executes
TaskTime == TaskRunsFor({1}, MaxElapsed)

\* void sleep(uint16_t ms)
sleep(ms) ==
    /\ t' = [t EXCEPT ![cur] =
                [@ EXCEPT !.state = T_WAIT,
                          !.sleepUntil = U32Plus(millis, ms)]]
    /\ wakeAt' = [wakeAt EXCEPT ![cur] = TimePlus(clock, ms)]
    /\ held' = held \ {cur}

SleepsFor(mss) ==
    /\ pc = "task"
    /\ \E ms \in mss : sleep(ms)
    /\ ret' = NoRet
    /\ UNCHANGED <<variant, n, cur, ctxSw, suspendFlags, lowPowerMode, clock,
                   bootAt, pc, now, best, wdtEnabled, wdtKick, spi, ranAt,
                   ticks, call>>

Sleep == SleepsFor(SleepMs)

\* bool shouldYield() evaluated when millis() is tm:
\*   first sketch:  (millis() - tasks[currentTask].lastRun) > 2000
\*   second sketch: now - t[cur].startRun > TASK_MAX_RUNTIME_MS
\* (32-bit unsigned arithmetic; lastRun is a uint16_t, startRun a uint32_t)
shouldYieldAt(tm) ==
    LET since == IF variant = 1 THEN Promote16(t[cur].last) ELSE t[cur].startRun
    IN ~TimeGeq(Promote16(TASK_MAX_RUNTIME_MS), U32Minus(tm, since))

shouldYield == shouldYieldAt(millis)

\* the running entry point calls shouldYield()
ShouldYield ==
    /\ pc = "task"
    /\ ret' = [op |-> "shouldYield", rc |-> shouldYield]
    /\ UNCHANGED <<variant, t, n, cur, ctxSw, suspendFlags, lowPowerMode, clock,
                   bootAt, pc, now, best, wdtEnabled, wdtKick, wakeAt, held, spi, ranAt,
                   ticks, call>>

\* the running entry point goes d times round a loop of one ms per turn that
\* begins each turn with YIELD_IF_NEEDED() (YIELD_CHECK() in the first sketch),
\* shouldYield() answering false every time
PolledLoopFor(ds, limit) ==
    /\ pc = "task"
    /\ \E d \in ds :
          /\ Elapsed + d <= limit
          /\ {k \in 0 .. (d - 1) : shouldYieldAt(U32Plus(millis, k))} = {}
          /\ clock' = TimePlus(clock, d)
          /\ pc' = AfterTime(d, "task")
    /\ ret' = NoRet
    /\ UNCHANGED <<variant, t, n, cur, ctxSw, suspendFlags, lowPowerMode, bootAt,
                   now, best, wdtEnabled, wdtKick, wakeAt, held, spi, ranAt,
                   ticks, call>>

\* int suspendTask(uint8_t id): the value returned
suspendTaskRc(id) == IF id < n THEN 0 ELSE -1

\* seeded fault: suspendTask setting the flag and leaving the state alone
suspendTaskFlagOnly(id) ==
    IF id < n
    THEN suspendFlags' = OrBit(suspendFlags, id) /\ UNCHANGED t
    ELSE UNCHANGED <<t, suspendFlags>>

\* seeded fault: suspendTask without its test of id
suspendTaskUnchecked(id) ==
    /\ suspendFlags' = OrBit(suspendFlags, id)
    /\ t' = [t EXCEPT ![id].state = IF @ # T_WAIT THEN T_SUSPENDED ELSE @]

\* int suspendTask(uint8_t id): what it writes
suspendTask(id) ==
    IF id < n
    THEN /\ suspendFlags' = OrBit(suspendFlags, id)
         /\ t' = [t EXCEPT ![id].state = IF @ # T_WAIT THEN T_SUSPENDED ELSE @]
    ELSE UNCHANGED <<t, suspendFlags>>

\* int resumeTask(uint8_t id): the value returned
resumeTaskRc(id) == IF id < n THEN 0 ELSE -1

\* seeded fault: resumeTask making the task READY whatever its state
resumeTaskAlwaysReady(id) ==
    IF id < n
    THEN /\ suspendFlags' = ClearBit(suspendFlags, id)
         /\ t' = [t EXCEPT ![id].state = T_READY]
    ELSE UNCHANGED <<t, suspendFlags>>

\* int resumeTask(uint8_t id): what it writes
resumeTask(id) ==
    IF id < n
    THEN /\ suspendFlags' = ClearBit(suspendFlags, id)
         /\ t' = [t EXCEPT ![id].state = IF @ = T_SUSPENDED THEN T_READY ELSE @]
    ELSE UNCHANGED <<t, suspendFlags>>

\* the ids the shell passes on: the first sketch passes atoi(args) as it is,
\* the second only if (id >= 0 && id < os.n)
ShellPasses(id) == variant = 1 \/ id < n

\* shell command "suspend <id>", run by the entry point of the shell task;
\* the value suspendTask returns is discarded
Suspend ==
    /\ pc = "task"
    /\ \E id \in TaskIds :
          /\ ShellPasses(id)
          /\ suspendTask(id)
          /\ held' = IF id < n /\ t[id].state = T_WAIT THEN held \cup {id} ELSE held
    /\ ret' = NoRet
    /\ UNCHANGED <<variant, n, cur, ctxSw, lowPowerMode, clock, bootAt, pc, now,
                   best, wdtEnabled, wdtKick, wakeAt, spi, ranAt,
                   ticks, call>>

\* shell command "resume <id>"
Resume ==
    /\ pc = "task"
    /\ \E id \in TaskIds : ShellPasses(id) /\ resumeTask(id)
    /\ ret' = NoRet
    /\ UNCHANGED <<variant, n, cur, ctxSw, lowPowerMode, clock, bootAt, pc, now,
                   best, wdtEnabled, wdtKick, wakeAt, held, spi, ranAt,
                   ticks, call>>

\* an entry point calls suspendTask(id) and keeps the value returned
SuspendCall ==
    /\ pc = "task"
    /\ \E id \in TaskIds :
          /\ suspendTask(id)
          /\ held' = IF id < n /\ t[id].state = T_WAIT THEN held \cup {id} ELSE held
          /\ ret' = [op |-> "suspendTask", id |-> id, rc |-> suspendTaskRc(id)]
    /\ UNCHANGED <<variant, n, cur, ctxSw, lowPowerMode, clock, bootAt, pc, now,
                   best, wdtEnabled, wdtKick, wakeAt, spi, ranAt,
                   ticks, call>>

\* an entry point calls resumeTask(id) and keeps the value returned
ResumeCall ==
    /\ pc = "task"
    /\ \E id \in TaskIds :
          /\ resumeTask(id)
          /\ ret' = [op |-> "resumeTask", id |-> id, rc |-> resumeTaskRc(id)]
    /\ UNCHANGED <<variant, n, cur, ctxSw, lowPowerMode, clock, bootAt, pc, now,
                   best, wdtEnabled, wdtKick, wakeAt, held, spi, ranAt,
                   ticks, call>>

\* void setLowPowerMode(bool enabled); the clock prescaler and the backlight
\* it also switches are outside the kernel state
setLowPowerMode(enabled) == lowPowerMode' = enabled

\* shell command "power <0|1>"
SetLowPower ==
    /\ pc = "task"
    /\ \E b \in BOOLEAN : setLowPowerMode(b)
    /\ ret' = NoRet
    /\ UNCHANGED <<variant, t, n, cur, ctxSw, suspendFlags, clock, bootAt, pc, now,
                   best, wdtEnabled, wdtKick, wakeAt, held, spi, ranAt,
                   ticks, call>>

(* ---------------- tick counter ---------------- *)
\* byte k (0 = least significant) of the 32-bit value v
Byte(v, k) == (v \div (W8 ^ k)) % W8

\* the 32-bit value whose bytes, least significant first, are bs
RECURSIVE FromBytes(_)
FromBytes(bs) == IF bs = <<>> THEN 0 ELSE Head(bs) + W8 * FromBytes(Tail(bs))

\* ISR(TIMER1_COMPA_vect) { os.ticks++; }: served whenever Timer1 runs and
\* interrupts are enabled, between any two instructions of the main thread
\* (the counter is followed up to MaxTicks, far from its wrap). The four loads
\* of a read take less than the 10 ms between two ticks, so at most one tick
\* is served during a read.
TickIsr ==
    /\ wdtEnabled
    /\ pc # "reset"
    /\ ticks < MaxTicks
    /\ call.op = "getUptime" => ticks = call.from
    /\ ticks' = ticks + 1
    /\ ret' = NoRet
    /\ UNCHANGED <<variant, t, n, cur, ctxSw, suspendFlags, lowPowerMode, clock,
                   bootAt, pc, now, best, wdtEnabled, wdtKick, wakeAt, held, spi,
                   ranAt, call>>

\* the byte a load instruction of the main thread gets from ticks
LoadedByte(k) == Byte(ticks, k)

\* getUptime() called by the running entry point: the 8-bit processor loads
\* the four bytes of the volatile ticks one instruction at a time, interrupts
\* enabled; this is the load of the next byte
ReadTicksByte ==
    /\ pc = "task"
    /\ IF call.op = "getUptime"
       THEN /\ Len(call.bytes) < 4
            /\ call' = [call EXCEPT !.bytes = Append(@, LoadedByte(Len(@)))]
       ELSE /\ call = NoCall
            /\ call' = [op |-> "getUptime", from |-> ticks, bytes |-> <<LoadedByte(0)>>]
    /\ ret' = NoRet
    /\ UNCHANGED <<variant, t, n, cur, ctxSw, suspendFlags, lowPowerMode, clock,
                   bootAt, pc, now, best, wdtEnabled, wdtKick, wakeAt, held, spi,
                   ranAt, ticks>>

\* getUptime() returns ticks / SCHEDULER_FREQ_HZ computed on the bytes loaded
ReadTicksDone ==
    /\ call.op = "getUptime"
    /\ Len(call.bytes) = 4
    /\ ret' = [op |-> "getUptime", read |-> FromBytes(call.bytes),
               rc |-> FromBytes(call.bytes) \div SCHEDULER_FREQ_HZ,
               from |-> call.from, to |-> ticks]
    /\ call' = NoCall
    /\ UNCHANGED <<variant, t, n, cur, ctxSw, suspendFlags, lowPowerMode, clock,
                   bootAt, pc, now, best, wdtEnabled, wdtKick, wakeAt, held, spi,
                   ranAt, ticks>>

(* ---------------- SPI manager ---------------- *)
\* digitalWrite(pin, level) as a record of the call
Write(pin, level) == [pin |-> pin, level |-> level]

\* the levels of the pins after the digitalWrite calls ws, made in order
RECURSIVE AfterWrites(_, _)
AfterWrites(pin, ws) ==
    IF ws = <<>>
    THEN pin
    ELSE AfterWrites([pin EXCEPT ![Head(ws).pin] = Head(ws).level], Tail(ws))

\* the manager after a call that made the digitalWrite calls ws and left dev
\* at d
SpiAfter(op, arg, d, ws) ==
    [dev |-> d,
     pin |-> AfterWrites(spi.pin, ws),
     log |-> Append(spi.log, [op |-> op, d |-> arg, from |-> spi.dev, writes |-> ws])]

\* seeded fault: sel without the digitalWrite that releases the current device
selNoRelease(d) ==
    IF spi.dev # d
    THEN SpiAfter("sel", d, d, <<Write(d, "LOW")>>)
    ELSE SpiAfter("sel", d, spi.dev, <<>>)

\* seeded fault: sel without its test of the current device
selAlways(d) ==
    SpiAfter("sel", d, d, <<Write(spi.dev, "HIGH"), Write(d, "LOW")>>)

\* SPIMgr::sel(d) of the second sketch, SPIMgr::select(devicePin) of the first
sel(d) ==
    IF spi.dev # d
    THEN SpiAfter("sel", d, d, <<Write(spi.dev, "HIGH"), Write(d, "LOW")>>)
    ELSE SpiAfter("sel", d, spi.dev, <<>>)

\* SPIMgr::desel() / SPIMgr::deselect(): both chip selects HIGH; dev is not
\* assigned
desel ==
    SpiAfter("desel", 0, spi.dev, <<Write(PIN_SD_CS, "HIGH"), Write(PIN_ETH_CS, "HIGH")>>)

\* a driver, called from setup() or from a task, calls SPIMgr::sel
Sel ==
    /\ pc \in {"setup", "task"}
    /\ Len(spi.log) < MaxSpiCalls
    /\ \E d \in SpiDevices : spi' = sel(d)
    /\ ret' = NoRet
    /\ UNCHANGED <<variant, t, n, cur, ctxSw, suspendFlags, lowPowerMode, clock,
                   bootAt, pc, now, best, wdtEnabled, wdtKick, wakeAt, held,
                   ranAt, ticks, call>>

\* a driver, or setup(), calls SPIMgr::desel
Desel ==
    /\ pc \in {"setup", "task"}
    /\ Len(spi.log) < MaxSpiCalls
    /\ spi' = desel
    /\ ret' = NoRet
    /\ UNCHANGED <<variant, t, n, cur, ctxSw, suspendFlags, lowPowerMode, clock,
                   bootAt, pc, now, best, wdtEnabled, wdtKick, wakeAt, held,
                   ranAt, ticks, call>>

(* ---------------- routines that use the bus ---------------- *)
\* checkHTTP, runScript, sdLog, ...: the routine is entered by the running
\* entry point and selects its device
BusEnter ==
    /\ pc = "task"
    /\ call = NoCall
    /\ Len(spi.log) + 2 <= MaxSpiCalls
    /\ \E d \in SpiDevices :
          /\ spi' = sel(d)
          /\ call' = [op |-> "bus", d |-> d]
    /\ ret' = NoRet
    /\ UNCHANGED <<variant, t, n, cur, ctxSw, suspendFlags, lowPowerMode, clock,
                   bootAt, pc, now, best, wdtEnabled, wdtKick, wakeAt, held,
                   ranAt, ticks>>

\* iterations of the routine's loop, YIELD_IF_NEEDED() answering false
BusLoop == call.op = "bus" /\ PolledLoopFor({1}, MaxElapsed)

\* YIELD_IF_NEEDED() inside the routine's loop with shouldYield() true:
\* if (os.shouldYield()) return
BusYield ==
    /\ pc = "task"
    /\ call.op = "bus"
    /\ shouldYield
    /\ call' = NoCall
    /\ ret' = NoRet
    /\ UNCHANGED <<variant, t, n, cur, ctxSw, suspendFlags, lowPowerMode, clock,
                   bootAt, pc, now, best, wdtEnabled, wdtKick, wakeAt, held, spi,
                   ranAt, ticks>>

\* the routine runs to its end: SPIMgr::desel(); return
BusLeave ==
    /\ pc = "task"
    /\ call.op = "bus"
    /\ spi' = desel
    /\ call' = NoCall
    /\ ret' = NoRet
    /\ UNCHANGED <<variant, t, n, cur, ctxSw, suspendFlags, lowPowerMode, clock,
                   bootAt, pc, now, best, wdtEnabled, wdtKick, wakeAt, held,
                   ranAt, ticks>>

(* ---------------- mailbox (second sketch only) ---------------- *)
\* seeded fault: memcpy leaving out the last of the k bytes
MemcpyShort(dst, src, k) ==
    [j \in 1 .. MSG_DATA_LEN |-> IF j < k THEN src[j] ELSE dst[j]]

\* memcpy(dst, src, k): the first k bytes of dst are replaced
Memcpy(dst, src, k) ==
    [j \in 1 .. MSG_DATA_LEN |-> IF j <= k THEN src[j] ELSE dst[j]]

\* seeded fault: the parameter check without its test of size
sendInvalidIdOnly(taskId, size) == taskId >= n

\* the parameter check of sendMessage: taskId >= n || size > 8
sendInvalid(taskId, size) == taskId >= n \/ size > MSG_DATA_LEN

\* seeded fault: sendMessage without its test of message.pending
sendMessageOverwrite(taskId, msgType, data) ==
    LET size == Len(data)
    IN IF sendInvalid(taskId, size)
       THEN /\ ret' = [op |-> "send", to |-> taskId, size |-> size, rc |-> -1,
                       type |-> msgType, data |-> data]
            /\ UNCHANGED t
       ELSE /\ t' = [t EXCEPT ![taskId].message =
                       [type |-> msgType,
                        data |-> Memcpy(@.data, data, size),
                        size |-> size,
                        pending |-> TRUE]]
            /\ ret' = [op |-> "send", to |-> taskId, size |-> size, rc |-> 0,
                       type |-> msgType, data |-> data]

\* int sendMessage(uint8_t taskId, uint8_t msgType, const void* data, uint8_t size)
\* with size = Len(data)
sendMessage(taskId, msgType, data) ==
    LET size == Len(data)
    IN IF sendInvalid(taskId, size)
       THEN /\ ret' = [op |-> "send", to |-> taskId, size |-> size, rc |-> -1,
                       type |-> msgType, data |-> data]
            /\ UNCHANGED t
       ELSE IF t[taskId].message.pending
            THEN /\ ret' = [op |-> "send", to |-> taskId, size |-> size, rc |-> -2,
                            type |-> msgType, data |-> data]
                 /\ UNCHANGED t
            ELSE /\ t' = [t EXCEPT ![taskId].message =
                            [type |-> msgType,
                             data |-> Memcpy(@.data, data, size),
                             size |-> size,
                             pending |-> TRUE]]
                 /\ ret' = [op |-> "send", to |-> taskId, size |-> size, rc |-> 0,
                            type |-> msgType, data |-> data]

Send ==
    /\ pc = "task"
    /\ variant = 2
    /\ \E taskId \in TaskIds, m \in Messages : sendMessage(taskId, m[1], m[2])
    /\ UNCHANGED <<variant, n, cur, ctxSw, suspendFlags, lowPowerMode, clock,
                   bootAt, pc, now, best, wdtEnabled, wdtKick, wakeAt, held, spi, ranAt,
                   ticks, call>>

\* the value sendMessage returns for a target and a size, as its two tests
\* decide at the moment they are made
sendRc(taskId, size) ==
    IF sendInvalid(taskId, size) THEN -1
    ELSE IF t[taskId].message.pending THEN -2
    ELSE 0

\* the task table after the block cli(); type, memcpy, size, pending; sei()
sendStore(taskId, msgType, data) ==
    [t EXCEPT ![taskId].message =
        [type |-> msgType,
         data |-> Memcpy(@.data, data, Len(data)),
         size |-> Len(data),
         pending |-> TRUE]]

\* sendMessage called by the running entry point, up to its cli(): the two
\* tests are made with interrupts enabled; a refused send returns here
SendCheck ==
    /\ pc = "task"
    /\ variant = 2
    /\ call = NoCall
    /\ \E taskId \in TaskIds, m \in Messages :
          IF sendRc(taskId, Len(m[2])) # 0
          THEN /\ ret' = [op |-> "sendMessage", to |-> taskId,
                          rc |-> sendRc(taskId, Len(m[2])), isr |-> NoRet]
               /\ call' = NoCall
          ELSE /\ ret' = NoRet
               /\ call' = [op |-> "sendMessage", to |-> taskId, type |-> m[1],
                           data |-> m[2], isr |-> NoRet]
    /\ UNCHANGED <<variant, t, n, cur, ctxSw, suspendFlags, lowPowerMode, clock,
                   bootAt, pc, now, best, wdtEnabled, wdtKick, wakeAt, held, spi,
                   ranAt, ticks>>

\* an interrupt is served between the tests and the cli() of the sendMessage
\* in progress, and its handler calls sendMessage for the same task; the
\* handler runs with interrupts disabled, so its call is one step
IsrSend ==
    /\ call.op = "sendMessage"
    /\ call.isr = NoRet
    /\ \E m \in Messages :
          LET rc == sendRc(call.to, Len(m[2]))
          IN /\ t' = IF rc = 0 THEN sendStore(call.to, m[1], m[2]) ELSE t
             /\ call' = [call EXCEPT !.isr = [op |-> "sendMessage", rc |-> rc,
                                               type |-> m[1], data |-> m[2]]]
    /\ ret' = NoRet
    /\ UNCHANGED <<variant, n, cur, ctxSw, suspendFlags, lowPowerMode, clock,
                   bootAt, pc, now, best, wdtEnabled, wdtKick, wakeAt, held, spi,
                   ranAt, ticks>>

\* the rest of the sendMessage in progress: cli(); the four writes; sei();
\* return 0
SendCommit ==
    /\ call.op = "sendMessage"
    /\ t' = sendStore(call.to, call.type, call.data)
    /\ ret' = [op |-> "sendMessage", to |-> call.to, rc |-> 0, isr |-> call.isr]
    /\ call' = NoCall
    /\ UNCHANGED <<variant, n, cur, ctxSw, suspendFlags, lowPowerMode, clock,
                   bootAt, pc, now, best, wdtEnabled, wdtKick, wakeAt, held, spi,
                   ranAt, ticks>>

\* seeded fault: receiveMessage copying message.size bytes whatever maxSize is
receiveMessageWholeCopy(maxSize) ==
    IF ~t[cur].message.pending
    THEN /\ ret' = [op |-> "receive", max |-> maxSize, rc |-> 0,
                    type |-> "untouched", data |-> <<>>]
         /\ UNCHANGED t
    ELSE LET copySize == t[cur].message.size
         IN /\ ret' = [op |-> "receive", max |-> maxSize, rc |-> copySize,
                       type |-> t[cur].message.type,
                       data |-> [j \in 1 .. copySize |-> t[cur].message.data[j]]]
            /\ t' = [t EXCEPT ![cur].message.pending = FALSE]

\* int receiveMessage(uint8_t* msgType, void* data, uint8_t maxSize), called by
\* the running task; ret.type and ret.data are what was written through the
\* two pointers ("untouched": nothing was written)
receiveMessage(maxSize) ==
    IF ~t[cur].message.pending
    THEN /\ ret' = [op |-> "receive", max |-> maxSize, rc |-> 0,
                    type |-> "untouched", data |-> <<>>]
         /\ UNCHANGED t
    ELSE LET copySize == min(maxSize, t[cur].message.size)
         IN /\ ret' = [op |-> "receive", max |-> maxSize, rc |-> copySize,
                       type |-> t[cur].message.type,
                       data |-> [j \in 1 .. copySize |-> t[cur].message.data[j]]]
            /\ t' = [t EXCEPT ![cur].message.pending = FALSE]

Receive ==
    /\ pc = "task"
    /\ variant = 2
    /\ \E maxSize \in MaxSizes : receiveMessage(maxSize)
    /\ UNCHANGED <<variant, n, cur, ctxSw, suspendFlags, lowPowerMode, clock,
                   bootAt, pc, now, best, wdtEnabled, wdtKick, wakeAt, held, spi, ranAt,
                   ticks, call>>

(* ---------------- specifications ---------------- *)
\* the run loop, low-power mode off
Loop ==
    \/ Start
    \/ LoopTop
    \/ WdtReset
    \/ Scan
    \/ Dispatch
    \/ NoDispatch
    \/ Return
    \/ IdleDelay

\* scheduling: entry points that take time, sleep, and run the shell commands
\* suspend and resume
Next ==
    \/ Register
    \/ Loop
    \/ NoIdle
    \/ TaskTime
    \/ Sleep
    \/ Suspend
    \/ Resume

Spec == Init /\ [][Next]_vars

\* registration alone, up to and beyond the capacity of the table
RegisterAny ==
    /\ pc = "setup"
    /\ \E pf \in Profiles : add(pf[1], pf[2])
    /\ UNCHANGED <<variant, cur, ctxSw, suspendFlags, lowPowerMode, clock, bootAt,
                   pc, now, best, wdtEnabled, wdtKick, wakeAt, held, spi, ranAt,
                   ticks, call>>

NextReg == RegisterAny

SpecReg == Init /\ [][NextReg]_vars

\* messaging: entry points of the second sketch that send and receive
InitMsg == Init /\ variant = 2

NextMsg ==
    \/ Register
    \/ Loop
    \/ Send
    \/ Receive

SpecMsg == InitMsg /\ [][NextMsg]_vars

\* the run loop while the entry point is inside no kernel call
LoopOutsideCall == call = NoCall /\ Loop

\* messaging with a producer in interrupt context: sendMessage of the running
\* entry point step by step, and a handler that sends in between
NextRace ==
    \/ Register
    \/ LoopOutsideCall
    \/ SendCheck
    \/ IsrSend
    \/ SendCommit

SpecRace == InitMsg /\ [][NextRace]_vars

\* the tick counter: one task registered, run() started, the Timer1 interrupt
\* served at any point, and the entry point dispatched reading the counter
RegisterOne == n = 0 /\ Register

StartOne == n = 1 /\ Start

NextTicks ==
    \/ RegisterOne
    \/ StartOne
    \/ LoopTop
    \/ WdtReset
    \/ Scan
    \/ Dispatch
    \/ TickIsr
    \/ ReadTicksByte
    \/ ReadTicksDone

SpecTicks == Init /\ [][NextTicks]_vars

\* entry points that call the routines using the bus
NextBus ==
    \/ Register
    \/ LoopOutsideCall
    \/ NoIdle
    \/ BusEnter
    \/ BusLoop
    \/ BusYield
    \/ BusLeave

SpecBus == Init /\ [][NextBus]_vars

\* low-power mode: the shell commands "suspend" and "power" take tasks out of
\* the scan and switch the mode, and run() ends an iteration in sleep_mode(), in delay(1) or in neither
NextPower ==
    \/ Register
    \/ Loop
    \/ NoIdle
    \/ IdleSleep
    \/ Suspend
    \/ SetLowPower

SpecPower == Init /\ [][NextPower]_vars

\* starvation: several dispatches in a row; task h has period 0 and a priority
\* above that of every other registered task
Highest(h) ==
    /\ h < n
    /\ t[h].period = 0
    /\ \A j \in Slots : (j < n /\ j # h) => t[j].pri < t[h].pri

\* an entry point other than that of such a task sleeps
SleepLower == ~Highest(cur) /\ Sleep

NextStarve ==
    \/ Register
    \/ Start
    \/ LoopTop
    \/ WdtReset
    \/ Scan
    \/ Dispatch
    \/ NoDispatch
    \/ Returns(MaxStarveCtxSw)
    \/ IdleDelayWithin(MaxStarveMs)
    \/ NoIdle
    \/ TaskRunsFor({1}, MaxStarveMs)
    \/ SleepLower

SpecStarve == Init /\ [][NextStarve]_vars

\* sleep with the shortest and the longest duration a uint16_t holds
SleepDurations == {0, 1, W16 - 1}

SleepAny == SleepsFor(SleepDurations)

NextSleep ==
    \/ Register
    \/ Loop
    \/ NoIdle
    \/ TaskTime
    \/ SleepAny

SpecSleep == Init /\ [][NextSleep]_vars

\* message round trip: two tasks of the same priority are registered just
\* after reset; their entry points send, receive, sleep, suspend and resume,
\* and the sender and the receiver are dispatched in turn
InitTrip == InitMsg /\ clock = U32Zero

RegisterTrip ==
    /\ pc = "setup"
    /\ n < 2
    /\ add(0, PRIORITY_NORMAL)
    /\ UNCHANGED <<variant, cur, ctxSw, suspendFlags, lowPowerMode, clock, bootAt,
                   pc, now, best, wdtEnabled, wdtKick, wakeAt, held, spi, ranAt,
                   ticks, call>>

StartTrip == n = 2 /\ Start

NextTrip ==
    \/ RegisterTrip
    \/ StartTrip
    \/ LoopTop
    \/ WdtReset
    \/ Scan
    \/ Dispatch
    \/ NoDispatch
    \/ Return
    \/ IdleDelay
    \/ Send
    \/ Receive
    \/ Sleep
    \/ Suspend
    \/ Resume

SpecTrip == InitTrip /\ [][NextTrip]_vars

\* long-running entry points under the watchdog
TaskRuns == TaskRunsFor(RunMs, MaxRunMs)

IdleDelayLate == IdleDelayWithin(MaxRunMs)

NextWdt ==
    \/ Register
    \/ Start
    \/ LoopTop
    \/ WdtReset
    \/ Scan
    \/ Dispatch
    \/ NoDispatch
    \/ Return
    \/ IdleDelayLate
    \/ NoIdle
    \/ TaskRuns
    \/ ShouldYield
    \/ Reboot

SpecWdt == Init /\ [][NextWdt]_vars

\* entry points that honour the pseudo-preemption contract: every loop polls
\* shouldYield() and returns when it answers true
PolledLoop == PolledLoopFor(RunMs, MaxRunMs)

NextHonour ==
    \/ Register
    \/ Start
    \/ LoopTop
    \/ WdtReset
    \/ Scan
    \/ Dispatch
    \/ NoDispatch
    \/ Return
    \/ IdleDelayLate
    \/ NoIdle
    \/ PolledLoop
    \/ Reboot

SpecHonour == Init /\ [][NextHonour]_vars

\* scheduling with entry points that call suspendTask and resumeTask with any
\* id and look at the value returned
NextApi ==
    \/ Register
    \/ Loop
    \/ NoIdle
    \/ Sleep
    \/ SuspendCall
    \/ ResumeCall

SpecApi == Init /\ [][NextApi]_vars

\* the end-to-end trace: from boot, setup() registers A (HIGH), B (NORMAL) and
\* C (LOW) with period 0 in that order and calls run(); entry points take
\* time, and the entry point of A may call sleep(100)
InitTrace == Init /\ clock = U32Zero

RegisterTrace ==
    /\ pc = "setup"
    /\ n < Len(TracePri)
    /\ add(0, TracePri[n + 1])
    /\ UNCHANGED <<variant, cur, ctxSw, suspendFlags, lowPowerMode, clock, bootAt,
                   pc, now, best, wdtEnabled, wdtKick, wakeAt, held, spi, ranAt,
                   ticks, call>>

StartTrace == n = Len(TracePri) /\ Start

SleepTrace == cur = 0 /\ t[cur].state = T_RUN /\ SleepsFor({TraceSleepMs})

NextTrace ==
    \/ RegisterTrace
    \/ StartTrace
    \/ LoopTop
    \/ WdtReset
    \/ Scan
    \/ Dispatch
    \/ Returns(MaxTraceCtxSw)
    \/ IdleDelayWithin(MaxTraceMs)
    \/ NoIdle
    \/ TaskRunsFor(TraceRunMs, MaxTraceMs)
    \/ SleepTrace

SpecTrace == InitTrace /\ [][NextTrace]_vars

\* the SPI manager alone: the calls made on it by setup() and its drivers
NextSpi ==
    \/ Sel
    \/ Desel

SpecSpi == Init /\ [][NextSpi]_vars

(* ---------------- properties ---------------- *)
\* the step of run() that dispatches a task: cur = best; t[cur].state = T_RUN
Dispatched == pc = "select" /\ pc' = "task"

\* the step of run() that is the whole for loop
Scanned == pc = "scan" /\ pc' = "select"

\* task i is eligible at the time the iteration sampled: registered, not
\* suspended, READY, and its period has elapsed since its last dispatch (as the
\* scheduler computes that time)
Eligible(i) ==
    /\ i < n
    /\ ~BitSet(suspendFlags, i)
    /\ t[i].state = T_READY
    /\ TimeGeq(U32Minus(now, Promote16(t[i].last)), Promote16(t[i].period))

\* C1: while fewer than MAX_TASKS tasks are registered, a registration succeeds,
\* returns the next id (so the ids are 0, 1, ..., MAX_TASKS - 1 in turn) and
\* fills that slot only; once MAX_TASKS tasks are registered, a registration
\* returns -1 and leaves the task table and the task count unchanged.
C1_RegistrationCapacity ==
    [][ret'.op = "add" =>
         IF n < MAX_TASKS
         THEN /\ ret'.rc = n
              /\ n' = n + 1
              /\ t'[n].state = T_READY
              /\ \A i \in Slots \ {n} : t'[i] = t[i]
         ELSE /\ ret'.rc = -1
              /\ n' = n
              /\ t' = t]_vars

\* a registration has just been refused with the table full
C1_Refused ==
    /\ ret.op = "add"
    /\ ret.rc = -1
    /\ n = MAX_TASKS
    /\ \A i \in Slots : t[i].state = T_READY

\* C2: at every dispatch the task dispatched is eligible and its priority is
\* at least that of every task eligible at that moment.
C2_HighestPriorityDispatched ==
    [][Dispatched =>
         /\ Eligible(cur')
         /\ \A i \in Slots : Eligible(i) => t[cur'].pri >= t[i].pri]_vars

\* a task runs while a task of strictly lower priority is eligible too
C2_LowerPassedOver ==
    /\ pc = "task"
    /\ t[cur].state = T_RUN
    /\ \E i \in Slots \ {cur} : Eligible(i) /\ t[i].pri < t[cur].pri

\* C3: when several eligible tasks share the highest priority, the one with
\* the lowest id is dispatched, in both sketches of the scheduler.
C3_TieGoesToLowestId ==
    [][Dispatched =>
         \A i \in Slots : (Eligible(i) /\ t[i].pri = t[cur'].pri) => cur' <= i]_vars

\* C4: a task that called sleep(d) at time t0 is not dispatched before t0 + d,
\* and (when not suspended) is made READY by the first iteration whose time is
\* at least t0 + d.
C4_SleepHonoured ==
    [][/\ Dispatched => TimeGeq(clock, wakeAt[cur'])
       /\ Scanned =>
            \A i \in Slots :
               (/\ i < n
                /\ ~BitSet(suspendFlags, i)
                /\ t[i].state = T_WAIT
                /\ TimeGeq(clock, wakeAt[i])) => t'[i].state = T_READY]_vars

\* C5: a task whose suspend flag is set is never dispatched.
C5_SuspendedNeverDispatched ==
    [][Dispatched => ~BitSet(suspendFlags, cur')]_vars

\* a task has been dispatched while another one, suspended and WAITING with
\* its wake-time elapsed, was passed over
C5_SuspendedPassedOver ==
    /\ pc = "task"
    /\ t[cur].state = T_RUN
    /\ \E i \in Slots \ {cur} :
          /\ i < n
          /\ BitSet(suspendFlags, i)
          /\ t[i].state = T_WAIT
          /\ TimeGeq(now, t[i].sleepUntil)

\* C6: suspend and resume leave a WAITING task WAITING with its wake-time
\* unchanged; a task suspended while WAITING and later resumed is not
\* dispatched before the time t0 + d of its sleep, and is made READY by the
\* first iteration at or after that time at which it is not suspended.
C6_SuspendKeepsSleep ==
    [][/\ \A i \in Slots :
            (/\ i < n
             /\ t[i].state = T_WAIT
             /\ BitSet(suspendFlags, i) # BitSet(suspendFlags', i))
            => (t'[i].state = T_WAIT /\ t'[i].sleepUntil = t[i].sleepUntil)
       /\ (Dispatched /\ cur' \in held) => TimeGeq(clock, wakeAt[cur'])
       /\ Scanned =>
            \A i \in held :
               (/\ ~BitSet(suspendFlags, i)
                /\ t[i].state = T_WAIT
                /\ TimeGeq(clock, wakeAt[i])) => t'[i].state = T_READY]_vars

\* C7: a mailbox holds one message: a send (to a registered task, of a payload
\* of at most 8 bytes) to a mailbox with a pending message returns -2 and
\* changes nothing; to an empty mailbox it returns 0 and leaves the message
\* pending; a receive of a pending message empties the mailbox.
C7_OneSlotMailbox ==
    [][/\ (ret'.op = "send" /\ ret'.to < n /\ ret'.size <= MSG_DATA_LEN) =>
            IF t[ret'.to].message.pending
            THEN ret'.rc = -2 /\ t' = t
            ELSE ret'.rc = 0 /\ t'[ret'.to].message.pending
       /\ (ret'.op = "receive" /\ t[cur].message.pending) =>
            ~t'[cur].message.pending]_vars

\* a send has just been refused because the mailbox holds a message
C7_QueueFull ==
    /\ ret.op = "send"
    /\ ret.rc = -2
    /\ t[ret.to].message.pending

\* C8 as stated: a send to an id out of range and a send of more than 8 bytes
\* fail, change no mailbox, and return two different error values.
C8_DistinctErrors ==
    [][/\ (ret'.op = "send" /\ (ret'.to >= n \/ ret'.size > MSG_DATA_LEN)) =>
            (ret'.rc < 0 /\ t' = t)
       /\ (/\ ret.op = "send"
           /\ ret'.op = "send"
           /\ ret.to >= n
           /\ ret.size <= MSG_DATA_LEN
           /\ ret'.to < n
           /\ ret'.size > MSG_DATA_LEN) => ret'.rc # ret.rc]_vars

\* C8 amended: a send to an id out of range and a send of more than 8 bytes
\* both return -1 and change no mailbox; -1 is returned in no other case.
C8_InvalidParameters ==
    [][ret'.op = "send" =>
         /\ (ret'.to >= n \/ ret'.size > MSG_DATA_LEN) => (ret'.rc = -1 /\ t' = t)
         /\ ret'.rc = -1 => (ret'.to >= n \/ ret'.size > MSG_DATA_LEN)]_vars

\* a send of nine bytes to a registered task has just been refused
C8_OversizeRefused ==
    /\ ret.op = "send"
    /\ ret.rc = -1
    /\ ret.to < n
    /\ ret.size > MSG_DATA_LEN

\* C9: receive with no pending message returns 0 and writes nothing; with a
\* pending message it writes the type and the first min(maxSize, size) bytes,
\* returns that count and clears the pending flag, so that a receive that
\* follows at once returns 0.
C9_Receive ==
    [][ret'.op = "receive" =>
         LET m == t[cur].message
             k == IF ret'.max < m.size THEN ret'.max ELSE m.size
         IN /\ IF ~m.pending
               THEN /\ ret'.rc = 0
                    /\ ret'.type = "untouched"
                    /\ ret'.data = <<>>
                    /\ t' = t
               ELSE /\ ret'.rc = k
                    /\ ret'.type = m.type
                    /\ Len(ret'.data) = k
                    /\ \A j \in 1 .. k : ret'.data[j] = m.data[j]
                    /\ ~t'[cur].message.pending
                    /\ t' = [t EXCEPT ![cur].message.pending = FALSE]
            /\ ret.op = "receive" => ret'.rc = 0]_vars

\* a receive has just copied one byte of a message of two
C9_TruncatedCopy ==
    /\ ret.op = "receive"
    /\ ret.rc = 1
    /\ ret.data = <<5>>
    /\ t[cur].message.size = 2
    /\ ~t[cur].message.pending

\* C10: the watchdog is armed once, by the step that enters the loop, and
\* stays armed; every iteration refreshes it before its scan, and a dispatch
\* or an idle wait is only reached through the scan of the same iteration.
C10_WatchdogRefreshed ==
    [][/\ (pc = "setup" /\ pc' # "setup") =>
            (~wdtEnabled /\ wdtEnabled' /\ wdtKick' = clock /\ pc' = "loop")
       /\ pc # "setup" => (wdtEnabled /\ wdtEnabled')
       /\ (pc = "loop" /\ pc' # "loop") => pc' = "wdt"
       /\ (pc = "wdt" /\ pc' # "wdt") => (pc' = "scan" /\ wdtKick' = clock)
       /\ (pc' = "scan" /\ pc # "scan") => pc = "wdt"
       /\ (pc' = "select" /\ pc # "select") => pc = "scan"
       /\ (pc' = "task" /\ pc # "task") => pc = "select"
       /\ (pc' = "idle" /\ pc # "idle") => pc \in {"select", "task"}]_vars

\* a later iteration that found no task to run, the watchdog refreshed in it
C10_IdleIterationRefreshed ==
    /\ pc = "idle"
    /\ best < 0
    /\ ctxSw > 0
    /\ wdtEnabled
    /\ wdtKick = clock

\* C11: when more than the watchdog timeout (2 s) has passed since the last
\* wdt_reset of the armed watchdog, the entry point or the idle wait not
\* having come back, the processor is reset; the restart that follows leaves
\* the empty task table, no task registered, no suspend flag, no mailbox
\* content, no pending sleep and the counters at zero.
C11_WatchdogForcesReset ==
    [][/\ (wdtEnabled' /\ Diff(clock', wdtKick') > WDT_TIMEOUT_MS) => pc' = "reset"
       /\ pc = "reset" =>
             /\ pc' = "setup"
             /\ t' = [i \in Slots |-> ZeroTask]
             /\ n' = 0
             /\ cur' = 0
             /\ ctxSw' = 0
             /\ suspendFlags' = 0
             /\ lowPowerMode' = FALSE
             /\ wakeAt' = [i \in Slots |-> U32Zero]
             /\ millis' = U32Zero]_vars

\* the watchdog has expired under a dispatched entry point that is still
\* RUNNING, after an earlier dispatch had come back
C11_ResetWhileRunning ==
    /\ pc = "reset"
    /\ t[cur].state = T_RUN
    /\ ctxSw > 0
    /\ Diff(clock, wdtKick) > WDT_TIMEOUT_MS

\* the calls i .. j of the log
SpiCalls(i, j) == {k \in i .. j : k <= Len(spi.log)}

\* number of digitalWrite(d, LOW) made by the calls i .. j
Asserts(d, i, j) ==
    Cardinality({<<k, w>> \in SpiCalls(i, j) \X (1 .. 2) :
                    /\ w <= Len(spi.log[k].writes)
                    /\ spi.log[k].writes[w] = Write(d, "LOW")})

\* call k of the log is sel(d)
IsSel(k, d) == k \in 1 .. Len(spi.log) /\ spi.log[k].op = "sel" /\ spi.log[k].d = d

C19_SelectAsserts ==
    \A d \in SpiDevices :
        IsSel(Len(spi.log), d) =>
            /\ spi.pin[d] = "LOW"
            /\ \A e \in SpiDevices \ {d} : spi.pin[e] = "HIGH"

\* ms of physical time since the dispatch of the running task: the refresh of
\* the watchdog and the dispatch of an iteration happen in the same ms
SinceDispatch == Diff(clock, wdtKick)

\* C13: a call of shouldYield() by the running task returns true exactly when
\* more than TASK_MAX_RUNTIME_MS (2000 ms) have passed since the task was
\* dispatched, in both sketches and whatever millis() was at the dispatch.
C13_YieldExactlyPastBudget ==
    [][ret'.op = "shouldYield" =>
         (ret'.rc <=> SinceDispatch > TASK_MAX_RUNTIME_MS)]_vars

\* the tasks in state RUNNING
Running == {i \in Slots : t[i].state = T_RUN}

\* C14 as stated: once run() has been entered, exactly one task is RUNNING.
C14_ExactlyOneRunning == pc # "setup" => Cardinality(Running) = 1

\* C14, amended: at most one task is RUNNING, and a RUNNING task is the
\* current task with its entry point executing; while run() refreshes the
\* watchdog, scans or idles no task is RUNNING.
C14_AtMostOneRunning ==
    /\ Cardinality(Running) <= 1
    /\ \A i \in Running : i = cur /\ pc = "task"

\* the second of two registered tasks is RUNNING in its entry point after an
\* earlier dispatch has come back
C14_SecondTaskRunning ==
    /\ pc = "task"
    /\ n = 2
    /\ cur = 1
    /\ Running = {1}
    /\ ctxSw > 0

\* C16: suspendTask(id) and resumeTask(id) with an id that is not registered
\* (id >= n) return -1 and leave the suspend flags, the task table (states
\* and wake-times) and the pending sleeps as they were; with a registered id
\* they return 0.
C16_InvalidIdRefused ==
    [][ret'.op \in {"suspendTask", "resumeTask"} =>
         IF ret'.id < n
         THEN ret'.rc = 0
         ELSE /\ ret'.rc = -1
              /\ suspendFlags' = suspendFlags
              /\ t' = t
              /\ wakeAt' = wakeAt]_vars

\* suspendTask has just refused an unregistered id while a registered task is
\* suspended and another sleeps
C16_UnregisteredRefused ==
    /\ ret.op = "suspendTask"
    /\ ret.id >= n
    /\ ret.rc = -1
    /\ suspendFlags # 0
    /\ \E i \in Slots : i < n /\ t[i].state = T_WAIT

\* task i shares with the task dispatched last the highest priority among the
\* eligible tasks, and both are eligible
TiedWithLast(i) ==
    /\ i # cur
    /\ Eligible(i)
    /\ Eligible(cur)
    /\ t[i].pri = t[cur].pri
    /\ \A j \in Slots : Eligible(j) => t[j].pri <= t[cur].pri

\* C17: dispatch rotates among the eligible tasks that share the highest
\* priority: when the task dispatched last and another task are both eligible
\* with the same, highest, priority, the next dispatch does not take the task
\* dispatched last again.
C17_RoundRobinAmongEquals ==
    [][(Dispatched /\ ctxSw > 0 /\ \E i \in Slots : TiedWithLast(i)) => cur' # cur]_vars

\* C18: a dispatched entry point stays within TASK_MAX_RUNTIME_MS (2000 ms):
\* every step it takes leaves it within 2000 ms of its dispatch, still
\* executing or back in run().
C18_DispatchWithinBudget ==
    [][pc = "task" =>
         /\ pc' \in {"task", "idle"}
         /\ Diff(clock', wdtKick') <= TASK_MAX_RUNTIME_MS]_vars

\* C20: with entry points that poll shouldYield() every ms of their loops and
\* return once it answers true, the watchdog never resets the processor.
C20_NoResetWhenPolling == pc # "reset"

\* task A of the trace sleeps and its wake-up time has not come
AsleepA == wakeAt[0] # U32Zero /\ ~TimeGeq(clock, wakeAt[0])

\* C15: with A (HIGH), B (NORMAL), C (LOW) registered in that order, period 0,
\* every dispatch takes A, the first one included, except while A sleeps:
\* until the 100 ms of its sleep(100) have passed the dispatch takes B, and the
\* first dispatch after they have passed takes A again.
C15_TraceDispatch ==
    [][Dispatched => cur' = IF AsleepA THEN 1 ELSE 0]_vars

\* A has slept its 100 ms, B has been dispatched meanwhile, and the scan has
\* just chosen A again
C15_AWokenAndChosen ==
    /\ pc = "select"
    /\ best = 0
    /\ wakeAt[0] # U32Zero
    /\ TimeGeq(clock, wakeAt[0])
    /\ t[0].state = T_READY
    /\ t[1].state = T_READY
    /\ cur = 1
    /\ ctxSw >= 2

\* C21: two consecutive dispatches of a task are at least its period apart,
\* whatever millis() is (also once it no longer fits the 16 bits of last).
C21_PeriodIsMinimumInterval ==
    [][(Dispatched /\ ranAt[cur'] # NoTime) =>
         Diff(clock, ranAt[cur']) >= t[cur'].period]_vars

\* C22: the wake-up decision of the scan is right across the wrap of the
\* 32-bit counter: a WAITING task that is not suspended is made READY by an
\* iteration exactly when the d ms of its sleep(d) have passed since the call.
C22_WakeWrapSafe ==
    [][Scanned =>
         \A i \in Slots :
            (i < n /\ ~BitSet(suspendFlags, i) /\ t[i].state = T_WAIT) =>
               (t'[i].state = T_READY <=> TimeGeq(clock, wakeAt[i]))]_vars

\* C23: when a handler's send to the same task is served during a send of the
\* running entry point to an empty mailbox, at most one of the two returns 0,
\* and the mailbox then holds the message of the send that returned 0.
C23_AtomicSend ==
    [][(ret'.op = "sendMessage" /\ ret'.isr # NoRet) =>
         /\ ~(ret'.rc = 0 /\ ret'.isr.rc = 0)
         /\ ret'.isr.rc = 0 =>
               /\ t'[ret'.to].message.type = ret'.isr.type
               /\ t'[ret'.to].message.size = Len(ret'.isr.data)]_vars

\* C24: a read of the tick counter by the main thread returns a value the
\* counter held at some moment between the first and the last load of the
\* read.
C24_NoTornRead ==
    [][ret'.op = "getUptime" => ret'.read \in ret'.from .. ret'.to]_vars

\* C25: whenever control is in run() and not in an entry point, every device
\* of the bus is deselected: the routines that selected one have called
\* desel() before the entry point returned.
C25_BusReleasedOnReturn ==
    pc # "task" => \A d \in SpiDevices : spi.pin[d] = "HIGH"

\* the step in which the dispatched entry point returns to run()
Returned == pc = "task" /\ pc' = "idle"

\* C26: when the entry point returns, the task becomes READY only if it is
\* still RUNNING, a state it took meanwhile (WAITING, SUSPENDED) is kept, and
\* the context-switch counter goes up by one; no other step changes the
\* counter.
C26_ReturnKeepsState ==
    [][/\ Returned =>
            /\ t'[cur].state = IF t[cur].state = T_RUN THEN T_READY ELSE t[cur].state
            /\ ctxSw' = ctxSw + 1
            /\ cur' = cur
       /\ ctxSw' # ctxSw => Returned]_vars

\* the entry point has returned after suspending its own task, which is
\* still SUSPENDED
C26_SelfSuspendKept ==
    /\ pc = "idle"
    /\ ctxSw = 1
    /\ t[cur].state = T_SUSPENDED
    /\ BitSet(suspendFlags, cur)

\* the suspend flags of the tasks other than id are the same before and after
OtherFlagsKept(id) ==
    \A j \in Slots \ {id} : BitSet(suspendFlags', j) <=> BitSet(suspendFlags, j)

\* C27: suspendTask(id), id registered, sets the flag of id and makes its
\* state SUSPENDED unless it is WAITING, in which case state and wake-time
\* stay; resumeTask(id) clears the flag and makes the state READY exactly if
\* it was SUSPENDED; neither changes anything else of the task, nor the flag,
\* state or wake-time of another task.
C27_SuspendResumeEffect ==
    [][/\ (ret'.op = "suspendTask" /\ ret'.id < n) =>
            /\ BitSet(suspendFlags', ret'.id)
            /\ OtherFlagsKept(ret'.id)
            /\ t' = [t EXCEPT ![ret'.id].state =
                                 IF @ = T_WAIT THEN T_WAIT ELSE T_SUSPENDED]
       /\ (ret'.op = "resumeTask" /\ ret'.id < n) =>
            /\ ~BitSet(suspendFlags', ret'.id)
            /\ OtherFlagsKept(ret'.id)
            /\ t' = [t EXCEPT ![ret'.id].state =
                                 IF @ = T_SUSPENDED THEN T_READY ELSE @]]_vars

\* resumeTask has just cleared the flag of a task that was suspended while
\* WAITING and still is WAITING, another task being suspended
C27_ResumedStillWaiting ==
    /\ ret.op = "resumeTask"
    /\ ret.id < n
    /\ ret.id \in held
    /\ t[ret.id].state = T_WAIT
    /\ t[ret.id].sleepUntil # U32Zero
    /\ ~BitSet(suspendFlags, ret.id)
    /\ suspendFlags # 0

\* the step that ends an iteration of run()
IterationEnds == pc = "idle" /\ pc' # "idle"

\* C28: an iteration that selected no task ends in the low-power wait when
\* low-power mode is enabled and in the short delay otherwise; an iteration
\* that dispatched a task ends with neither, so no time passes at its end.
C28_IdleOnlyWhenNoneSelected ==
    [][IterationEnds =>
          IF best < 0
          THEN IF lowPowerMode THEN IdleSleep ELSE IdleDelay
          ELSE clock' = clock]_vars

\* task h is not suspended, has period 0 and the strictly highest priority
Dominant(h) == Highest(h) /\ ~BitSet(suspendFlags, h)

\* C29: while a task with period 0 and the strictly highest priority is not
\* suspended and never sleeps, every dispatch selects it, so no other task is
\* dispatched; the iteration that dispatches has refreshed the watchdog.
C29_Starvation ==
    [][Dispatched =>
          /\ wdtKick = clock
          /\ \A h \in Slots : Dominant(h) => cur' = h]_vars

\* the dominant task has been dispatched three times in a row, the other
\* registered task never
C29_OtherNeverRan ==
    /\ pc = "task"
    /\ n = 2
    /\ ctxSw = MaxStarveCtxSw - 1
    /\ Dominant(cur)
    /\ \E j \in Slots : j < n /\ j # cur /\ ranAt[j] = NoTime /\ t[j].state = T_READY

\* the step in which the running entry point calls sleep
Slept == pc = "task" /\ pc' = "task" /\ t'[cur].state = T_WAIT /\ t' # t

\* C30: the wake-time a call of sleep stores is set (not the value 0 that the
\* scan writes for "no wake-time") and strictly after millis() at the call,
\* for every duration, so a WAITING task always has such a wake-time.
C30_WakeTimeInFuture ==
    [][Slept =>
          /\ t'[cur].sleepUntil # U32Zero
          /\ TimeGeq(t'[cur].sleepUntil, millis)
          /\ t'[cur].sleepUntil # millis]_vars

\* the devices of the bus whose chip select is LOW
Asserted == {d \in SpiDevices : spi.pin[d] = "LOW"}

\* C31: whatever select and deselect calls have been made, at most one device
\* of the bus is asserted, and when the last call is deselect none is.
C31_BusMutualExclusion ==
    /\ Cardinality(Asserted) <= 1
    /\ (Len(spi.log) > 0 /\ spi.log[Len(spi.log)].op = "desel") => Asserted = {}

\* sel(SD); sel(ETH) have been called: the bus has passed from one device to
\* the other, and then desel() has released it
C31_SwitchedThenReleased ==
    /\ Len(spi.log) = 3
    /\ IsSel(1, PIN_SD_CS) /\ IsSel(2, PIN_ETH_CS)
    /\ spi.log[2].writes = <<Write(PIN_SD_CS, "HIGH"), Write(PIN_ETH_CS, "LOW")>>
    /\ spi.log[3].op = "desel"
    /\ Asserted = {}

\* the step of run() that acts on the outcome of the scan
Selected == pc = "select" /\ pc' # "select"

\* C32: an iteration in which some task is eligible dispatches a task,
\* whatever the priority levels of the eligible tasks are (IDLE included).
C32_WorkConserving ==
    [][(Selected /\ \E i \in Slots : Eligible(i)) => Dispatched]_vars

\* the tasks the scan of the current iteration finds eligible, and those of
\* them that have the highest priority
Candidates ==
    {i \in Slots : i < n /\ ~Skipped(i) /\ Runnable(Woken(t[i], now), now)}

TopCandidates == {i \in Candidates : \A j \in Candidates : t[j].pri <= t[i].pri}

\* C33: run on the same task table, suspend flags and sampled time, the scans
\* of the two sketches leave the same selection, except that among two or more
\* eligible tasks sharing the highest priority the first sketch selects the
\* lowest id and the second the highest.
C33_VariantsAgreeExceptTies ==
    pc = "scan" =>
        LET b1 == BestFrom(1, 0, -1, 0)
            b2 == BestFrom(2, 0, -1, 0)
        IN IF Cardinality(TopCandidates) >= 2
           THEN /\ b1 \in TopCandidates /\ \A i \in TopCandidates : b1 <= i
                /\ b2 \in TopCandidates /\ \A i \in TopCandidates : b2 >= i
           ELSE b1 = b2

\* C34: a task in state SUSPENDED has its suspend flag set, and a task whose
\* suspend flag is set is in state SUSPENDED or WAITING.
C34_FlagMatchesState ==
    \A i \in Slots :
        /\ t[i].state = T_SUSPENDED => BitSet(suspendFlags, i)
        /\ BitSet(suspendFlags, i) => t[i].state \in {T_SUSPENDED, T_WAIT}

\* the running task has gone to sleep and has then been suspended, and the
\* other task has been suspended while READY
C34_SuspendedAsleepAndReady ==
    /\ pc = "task"
    /\ n = 2
    /\ BitSet(suspendFlags, cur) /\ t[cur].state = T_WAIT
    /\ \E j \in Slots \ {cur} :
          j < n /\ BitSet(suspendFlags, j) /\ t[j].state = T_SUSPENDED

\* C35: at most one task is RUNNING, a RUNNING task is the current task with
\* its entry point executing, and from the dispatch of a task to the return of
\* its entry point no task is dispatched and the current task stays the same.
C35_RunToCompletion ==
    [][/\ Cardinality(Running') <= 1
       /\ \A i \in Running' : i = cur' /\ pc' = "task"
       /\ pc = "task" => (ranAt' = ranAt /\ cur' = cur)
       /\ (ranAt' # ranAt \/ cur' # cur) => Dispatched]_vars

\* the entry point of the current task has been executing for some time while
\* another registered task is READY and is not suspended
C35_OtherWaitsForReturn ==
    /\ pc = "task"
    /\ n = 2
    /\ Running = {cur}
    /\ Diff(clock, ranAt[cur]) >= 1
    /\ \E j \in Slots \ {cur} :
          j < n /\ t[j].state = T_READY /\ ~BitSet(suspendFlags, j) /\ t[j].period = 0

\* C36: a receive that returns 0 leaves the mailbox of the caller (pending
\* flag, type, size and payload) as it was.
C36_ZeroMeansNothingConsumed ==
    [][(ret'.op = "receive" /\ ret'.rc = 0) =>
          t'[cur].message = t[cur].message]_vars

\* the message a mailbox m holds: its type and its payload bytes
MessageOf(m) == [type |-> m.type, data |-> [j \in 1 .. m.size |-> m.data[j]]]

\* the message held by the mailbox of task i
Stored(i) == MessageOf(t[i].message)

\* C37: an accepted send leaves its type and payload pending in the mailbox
\* of the target; nothing but an accepted send to a task or a receive by that
\* task changes its mailbox; a receive by the target with maxSize >= the
\* length returns the length, the type and the payload and empties the
\* mailbox, and a receive from an emptied mailbox returns nothing.
C37_RoundTrip ==
    [][/\ (ret'.op = "send" /\ ret'.rc = 0) =>
            /\ t'[ret'.to].message.pending
            /\ MessageOf(t'[ret'.to].message) = [type |-> ret'.type, data |-> ret'.data]
       /\ \A i \in Slots :
            (i < n /\ t'[i].message # t[i].message) =>
                \/ ret'.op = "send" /\ ret'.rc = 0 /\ ret'.to = i
                \/ ret'.op = "receive" /\ cur = i /\ t[i].message.pending
       /\ (/\ ret'.op = "receive"
           /\ t[cur].message.pending
           /\ ret'.max >= t[cur].message.size) =>
               /\ ret'.rc = t[cur].message.size
               /\ [type |-> ret'.type, data |-> ret'.data] = Stored(cur)
               /\ ~t'[cur].message.pending
       /\ (ret'.op = "receive" /\ ~t[cur].message.pending) =>
               (ret'.rc = 0 /\ ret'.type = "untouched")]_vars

\* task 0 has just received the two-byte message that task 1 sent to it in
\* an earlier dispatch; task 1 has gone to sleep and has sent nothing to itself
C37_DeliveredToOtherTask ==
    /\ ret.op = "receive"
    /\ cur = 0
    /\ ret.rc = 2
    /\ ret.type = 2
    /\ ret.data = <<5, 6>>
    /\ ranAt[1] # NoTime
    /\ ctxSw = 1
    /\ t[1].state = T_WAIT
    /\ ~t[1].message.pending /\ t[1].message.size = 0
    /\ ~t[0].message.pending

\* the pins written by the select and deselect calls made so far
PinsWritten ==
    {spi.log[k].writes[w].pin :
        <<k, w>> \in {<<k, w>> \in (1 .. Len(spi.log)) \X (1 .. 2) :
                         w <= Len(spi.log[k].writes)}}

\* C38: select and deselect write the chip selects of the devices of the bus
\* and no other pin, the first select after start-up included.
C38_OnlyChipSelectsWritten == PinsWritten \subseteq SpiDevices

====
